---- MODULE Spec2Model ----
(***************************************************************************)
(* CF-Progress-Management: the data-synchronisation engine                 *)
(* (DataSyncService), the remote client (CodeforcesService) and the        *)
(* scheduler (CronJobService), over the Student, Submission, RatingChange  *)
(* and Contest collections.                                                *)
(*                                                                         *)
(* The sync engine is modelled at the granularity of its awaits.           *)
(*                                                                         *)
(* Spec            one student; requests served one at a time: a sync with *)
(*                 every outcome of its remote calls, or a PUT of a rating.*)
(* SpecRepeat      one student; syncs served one at a time, a sync that    *)
(*                 succeeded being repeated at once.                       *)
(* SpecConcurrent  one student; two sync requests whose steps interleave.  *)
(* SpecClock       as SpecConcurrent, the remote platform answering every  *)
(*                 call, while the wall clock runs.                        *)
(* SpecBatch       two students; syncAllStudents and the scheduled and     *)
(*                 manual runs of CronJobService.executeSync.              *)
(* SpecCron        one student; the requests of /api/cron, the scheduled   *)
(*                 task and the runs, from the state the entry point       *)
(*                 leaves.                                                 *)
(* SpecService     as SpecCron, CronJobService.initialize() being called   *)
(*                 first.                                                  *)
(* SpecRun         the runs of executeSync under fairness of their steps.  *)
(* SpecStudents    creates, deletes and PUTs of StudentController.         *)
(* SpecRate        the remote calls of a sync on a millisecond clock.      *)
(***************************************************************************)
EXTENDS Integers, Sequences, FiniteSets, Bags, TLC

VARIABLES
    Student,        \* Student collection: _id -> document
    Submission,     \* Submission collection: bag of documents
    RatingChange,   \* RatingChange collection: bag of documents
    Contest,        \* Contest collection: set of contestIds
    sync,           \* one syncStudentData / syncHandle call per slot
    now,            \* Date.now(), in clock ticks
    batch,          \* the executeSync or syncAllStudents call in progress
    jobStatus,      \* CronJobService.jobStatus
    rate,           \* the remote calls of one syncHandle on a millisecond clock
    controller,     \* the controllers: the PUT and the manual trigger in
                    \* progress, the last response
    cron            \* CronJobService.cronTask, the tasks node-cron holds
                    \* scheduled, process.env, the last call of the service

vars == <<Student, Submission, RatingChange, Contest, sync, now, batch, jobStatus,
          rate, controller, cron>>
cronVars == <<batch, jobStatus, cron>>

----------------------------------------------------------------------------
(* Bounds of the model *)

\* Own submissions / rating changes the remote platform holds per handle.
MaxRemote == 1
\* Clock ticks the model lets pass.
MaxTicks == 1

\* `default: null` of the Student schema; a rating is never negative.
Null == 0 - 1

\* Concurrent HTTP requests (POST sync/student/:id, sync/force/:id).
Procs == {"reqA", "reqB"}
\* The calls of syncStudentData / syncHandle that can be in progress: one
\* per HTTP request, one for the batch loop, one for the PUT of a handle.
Slots == Procs \cup {"batch", "put"}

StudentIds == {1, 2}
\* An id no Student document has (POST sync/student/<unknown id>).
MissingId == 0

Handle(id) == IF id = 1 THEN "tourist" ELSE "Petr"
Handles == {Handle(id) : id \in StudentIds}
Email(id) == IF id = 1 THEN "a@x.io" ELSE "b@x.io"

----------------------------------------------------------------------------
(* The remote platform *)

\* A submission of a team: user.status lists it for every member.
TeamSubmissionId == 300

\* user.status?handle=h : ids of the submissions, in the order returned.
\* tourist has submissions of his own and one with a team; Petr only that one.
RemoteSubmissions(h) ==
    IF h = "tourist"
    THEN [i \in 1..MaxRemote |-> 100 + i] \o <<TeamSubmissionId>>
    ELSE <<TeamSubmissionId>>

\* user.rating?handle=h : contestIds of the rating changes; none for a user
\* who is unrated.
RemoteRatingChanges(h) ==
    IF h = "tourist" THEN [i \in 1..MaxRemote |-> i] ELSE << >>

\* contest.list
RemoteContests == [i \in 1..(MaxRemote + 1) |-> i]

\* user.info?handles=h : rating and maxRating are optional (CodeforcesUser);
\* an unrated user has neither.
RemoteUser(h) ==
    IF h = "tourist"
    THEN [handle |-> h, rating |-> 1200, maxRating |-> 1300]
    ELSE [handle |-> h, rating |-> Null, maxRating |-> Null]

\* What one axios.get of makeRequest can come back with.
Responses ==
    {"OK", "FAILED_NOT_FOUND", "FAILED_OTHER", "HTTP_400", "HTTP_503",
     "ECONNABORTED", "ENOTFOUND", "NETWORK"}

\* makeRequest: the message of the Error it throws ("" when it returns).
makeRequest(resp) ==
    CASE resp = "OK" -> ""
      [] resp = "FAILED_NOT_FOUND" ->
            "Failed to fetch data from Codeforces: Codeforces API error: handle: User with handle not found"
      [] resp = "FAILED_OTHER" ->
            "Failed to fetch data from Codeforces: Codeforces API error: Unknown error"
      [] resp = "HTTP_400" -> "Invalid request parameters"
      [] resp = "HTTP_503" -> "Codeforces API is temporarily unavailable"
      [] resp = "ECONNABORTED" ->
            "Request timeout - Codeforces API is slow to respond"
      [] resp = "ENOTFOUND" ->
            "Cannot connect to Codeforces API - check your internet connection"
      [] OTHER -> "Failed to fetch data from Codeforces: Network Error"

\* message.includes('not found')
IncludesNotFound(msg) ==
    msg \in {"Failed to fetch data from Codeforces: Codeforces API error: handle: User with handle not found",
             "User not found"}

\* validateHandle: any Error of getUserInfo is "handle does not exist".
validateHandle(resp) == makeRequest(resp) = ""

\* The answers by which the remote platform says that a handle does not
\* exist: status FAILED with "... not found", sent with HTTP status 400.
ReportsNotFound(resp) == resp \in {"FAILED_NOT_FOUND", "HTTP_400"}

\* getUserRatingChanges: the list it resolves with, or << >> with threw set.
\* An Error whose message includes 'not found' (or 'rating': none of
\* makeRequest's messages does) is swallowed as "no rating changes".
getUserRatingChanges(h, resp) ==
    LET msg == makeRequest(resp) IN
    IF msg = "" THEN [threw |-> FALSE, value |-> RemoteRatingChanges(h), message |-> ""]
    ELSE IF IncludesNotFound(msg) THEN [threw |-> FALSE, value |-> << >>, message |-> ""]
    ELSE [threw |-> TRUE, value |-> << >>, message |-> msg]

\* getUserSubmissions: as above, 'not found' is "no submissions".
getUserSubmissions(h, resp) ==
    LET msg == makeRequest(resp) IN
    IF msg = "" THEN [threw |-> FALSE, value |-> RemoteSubmissions(h), message |-> ""]
    ELSE IF IncludesNotFound(msg) THEN [threw |-> FALSE, value |-> << >>, message |-> ""]
    ELSE [threw |-> TRUE, value |-> << >>, message |-> msg]

----------------------------------------------------------------------------
(* Documents *)

\* new Student(body) with the schema defaults.
NewStudent(id) ==
    [email |-> Email(id), codeforcesHandle |-> Handle(id),
     currentRating |-> Null, maxRating |-> Null, lastDataUpdate |-> Null]

SubmissionDoc(sid, studentId, handle) ==
    [submissionId |-> sid, studentId |-> studentId, codeforcesHandle |-> handle]

RatingChangeDoc(cid, studentId, handle) ==
    [contestId |-> cid, studentId |-> studentId, codeforcesHandle |-> handle]

\* Submission.exists({ submissionId })
SubmissionExists(sid) ==
    \E d \in BagToSet(Submission) : d.submissionId = sid

\* RatingChange.exists({ codeforcesHandle, contestId })
RatingChangeExists(handle, cid) ==
    \E d \in BagToSet(RatingChange) :
        d.codeforcesHandle = handle /\ d.contestId = cid

\* A create that replaces what the collection holds for the handle.
CreateReplacingHandle(coll, doc) ==
    LET kept == {d \in BagToSet(coll) : d.codeforcesHandle # doc.codeforcesHandle}
    IN [d \in kept |-> coll[d]] (+) SetToBag({doc})

\* Model.create(doc): one more document, the others untouched.
Create(coll, doc) == coll (+) SetToBag({doc})

\* A Submission schema without `unique: true` on submissionId.
SubmissionInsertNoIndex(doc) == TRUE

\* The unique index on submissionId: an insert of a stored id fails (E11000).
SubmissionInsertAllowed(doc) == ~SubmissionExists(doc.submissionId)

\* A RatingChange schema without the compound unique index.
RatingChangeInsertNoIndex(doc) == TRUE

\* The compound unique index { codeforcesHandle: 1, contestId: 1 }.
RatingChangeInsertAllowed(doc) ==
    ~RatingChangeExists(doc.codeforcesHandle, doc.contestId)

\* JavaScript truthiness of a rating: null and 0 are falsy.
Truthy(r) == r # Null /\ r # 0

\* StudentSchema.pre('save'): run on the document in memory.
PreSave(doc) ==
    IF Truthy(doc.currentRating)
       /\ (~Truthy(doc.maxRating) \/ doc.currentRating > doc.maxRating)
    THEN [doc EXCEPT !.maxRating = doc.currentRating]
    ELSE doc

----------------------------------------------------------------------------
(* DataSyncService: one call of syncStudentData per request slot *)

NoResult == [success |-> FALSE, message |-> ""]
NoDoc == [email |-> "", codeforcesHandle |-> "", currentRating |-> Null,
          maxRating |-> Null, lastDataUpdate |-> Null]
NoUser == [handle |-> "", rating |-> Null, maxRating |-> Null]

Idle ==
    [pc |-> "idle", id |-> MissingId, doc |-> NoDoc, user |-> NoUser,
     ratingChanges |-> << >>, submissions |-> << >>, idx |-> 0,
     contestsAdded |-> 0, submissionsAdded |-> 0, ratingChangesAdded |-> 0,
     remoteFailed |-> FALSE, notFound |-> FALSE, follows |-> FALSE,
     stamp |-> Null, result |-> NoResult]

\* The slot returns `res` to its caller: the locals of the call are gone,
\* the result (with the counts of its data) and the history stay.
Return(s, res) ==
    [Idle EXCEPT !.pc = "done", !.id = s.id, !.result = res,
                 !.doc = [NoDoc EXCEPT !.codeforcesHandle = s.doc.codeforcesHandle,
                                       !.lastDataUpdate = s.doc.lastDataUpdate],
                 !.contestsAdded = IF res.success THEN s.contestsAdded ELSE 0,
                 !.submissionsAdded = IF res.success THEN s.submissionsAdded ELSE 0,
                 !.ratingChangesAdded = IF res.success THEN s.ratingChangesAdded ELSE 0,
                 !.remoteFailed = s.remoteFailed,
                 !.notFound = s.notFound, !.follows = s.follows]

\* syncHandle's catch: every Error becomes a failure result.
Catch(s) == Return(s, [success |-> FALSE, message |-> "Sync failed"])

\* History: some remote call of this sync came back with an error.
Failed(s, resps) ==
    [s EXCEPT !.remoteFailed = s.remoteFailed \/ (\E r \in resps : r # "OK")]

Set(p, s) == sync' = [sync EXCEPT ![p] = s]

\* syncStudentData(id): Student.findById, then syncHandle with the document.
\* findById is outside syncHandle's try: when the store fails (dbOk false)
\* the call throws to its caller.
syncStudentData(id, dbOk) ==
    IF ~dbOk THEN [Idle EXCEPT !.pc = "threw", !.id = id]
    ELSE IF id \in DOMAIN Student
    THEN [Idle EXCEPT !.pc = "validate", !.id = id, !.doc = Student[id]]
    ELSE Return([Idle EXCEPT !.id = id],
                [success |-> FALSE, message |-> "Student not found"])

\* POST /api/codeforces/sync/student/:id (and sync/force/:id).
SyncStudentData(p, id, dbOk) ==
    /\ sync[p].pc = "idle"
    /\ Set(p, syncStudentData(id, dbOk))
    /\ UNCHANGED <<Student, Submission, RatingChange, Contest, now, cronVars, rate, controller>>

\* The client that has received success for a student asks for a sync of the
\* same student again at once: the next call of syncStudentData(id) follows
\* the successful one with no write in between.
Resync(p, dbOk) ==
    /\ sync[p].pc = "done"
    /\ sync[p].result.success
    /\ Set(p, [syncStudentData(sync[p].id, dbOk) EXCEPT !.follows = TRUE])
    /\ UNCHANGED <<Student, Submission, RatingChange, Contest, now, cronVars, rate, controller>>

\* syncHandle step 1: validateHandle(handle).
ValidateHandle(p, resp) ==
    LET s == [Failed(sync[p], {resp}) EXCEPT !.notFound = ReportsNotFound(resp)] IN
    /\ sync[p].pc = "validate"
    /\ IF validateHandle(resp)
       THEN Set(p, [s EXCEPT !.pc = "stats"])
       ELSE Set(p, Return(s, [success |-> FALSE, message |-> "Invalid handle"]))
    /\ UNCHANGED <<Student, Submission, RatingChange, Contest, now, cronVars, rate, controller>>

\* syncHandle step 2, getUserStats: Promise.allSettled of getUserInfo,
\* getUserRatingChanges and getUserSubmissions(handle, 1, 1). A rejected
\* rating history counts as << >>; a rejected user info throws.
GetUserStats(p, rUser, rRating, rSub) ==
    LET s == Failed(sync[p], {rUser, rRating, rSub})
        h == s.doc.codeforcesHandle
        rc == getUserRatingChanges(h, rRating)
    IN
    /\ sync[p].pc = "stats"
    /\ IF makeRequest(rUser) = ""
       THEN Set(p, [s EXCEPT !.pc = "statsCount", !.user = RemoteUser(h),
                             !.ratingChanges = rc.value])
       ELSE Set(p, Catch(s))
    /\ UNCHANGED <<Student, Submission, RatingChange, Contest, now, cronVars, rate, controller>>

\* getUserStats, the submissions count: an Error is caught and only warned.
GetUserStatsCount(p, resp) ==
    /\ sync[p].pc = "statsCount"
    /\ Set(p, [Failed(sync[p], {resp}) EXCEPT !.pc = "contests"])
    /\ UNCHANGED <<Student, Submission, RatingChange, Contest, now, cronVars, rate, controller>>

\* A syncHandle that updates the Student document (step 4a) before it syncs
\* the submissions and the rating changes.
NextStepRatingsFirst(step) ==
    CASE step = "contests" -> "updateRatings"
      [] step = "updateRatings" -> "fetchSubmissions"
      [] step = "ratingChangeExists" -> "stamp"

\* The order of syncHandle's steps 3 and 4: syncContests, syncSubmissions,
\* syncRatingChanges, updateStudentRatings, then the stamp and the save.
NextStep(step) ==
    CASE step = "contests" -> "fetchSubmissions"
      [] step = "ratingChangeExists" -> "updateRatings"
      [] step = "updateRatings" -> "stamp"

\* syncHandle step 3a, syncContests: upsert every contest of contest.list;
\* an Error is caught and counts as 0 contests added.
SyncContests(p, resp) ==
    LET s == Failed(sync[p], {resp})
        ids == {RemoteContests[i] : i \in DOMAIN RemoteContests}
    IN
    /\ sync[p].pc = "contests"
    /\ IF makeRequest(resp) = ""
       THEN /\ Contest' = Contest \cup ids
            /\ Set(p, [s EXCEPT !.pc = NextStep("contests"),
                                !.contestsAdded = Cardinality(ids \ Contest)])
       ELSE /\ Set(p, [s EXCEPT !.pc = NextStep("contests")])
            /\ UNCHANGED Contest
    /\ UNCHANGED <<Student, Submission, RatingChange, now, cronVars, rate, controller>>

\* syncSubmissions: getUserSubmissions(handle).
FetchSubmissions(p, resp) ==
    LET s == Failed(sync[p], {resp})
        got == getUserSubmissions(s.doc.codeforcesHandle, resp)
    IN
    /\ sync[p].pc = "fetchSubmissions"
    /\ IF got.threw
       THEN Set(p, Catch(s))
       ELSE Set(p, [s EXCEPT !.pc = "submissionExists",
                             !.submissions = got.value, !.idx = 1])
    /\ UNCHANGED <<Student, Submission, RatingChange, Contest, now, cronVars, rate, controller>>

\* syncSubmissions loop: Submission.exists for the next remote submission.
CheckSubmission(p) ==
    LET s == sync[p] IN
    /\ s.pc = "submissionExists"
    /\ IF s.idx > Len(s.submissions)
       THEN Set(p, [s EXCEPT !.pc = "ratingChangeExists", !.idx = 1])
       ELSE IF SubmissionExists(s.submissions[s.idx])
       THEN Set(p, [s EXCEPT !.idx = s.idx + 1])
       ELSE Set(p, [s EXCEPT !.pc = "submissionCreate"])
    /\ UNCHANGED <<Student, Submission, RatingChange, Contest, now, cronVars, rate, controller>>

\* syncSubmissions loop: Submission.create; a duplicate key Error propagates
\* to syncHandle's catch.
CreateSubmission(p) ==
    LET s == sync[p]
        doc == SubmissionDoc(s.submissions[s.idx], s.id, s.doc.codeforcesHandle)
    IN
    /\ s.pc = "submissionCreate"
    /\ IF SubmissionInsertAllowed(doc)
       THEN /\ Submission' = Create(Submission, doc)
            /\ Set(p, [s EXCEPT !.pc = "submissionExists", !.idx = s.idx + 1,
                                !.submissionsAdded = s.submissionsAdded + 1])
       ELSE /\ Set(p, Catch(s))
            /\ UNCHANGED Submission
    /\ UNCHANGED <<Student, RatingChange, Contest, now, cronVars, rate, controller>>

\* syncRatingChanges loop: RatingChange.exists for the next rating change.
CheckRatingChange(p) ==
    LET s == sync[p] IN
    /\ s.pc = "ratingChangeExists"
    /\ IF s.idx > Len(s.ratingChanges)
       THEN Set(p, [s EXCEPT !.pc = NextStep("ratingChangeExists")])
       ELSE IF RatingChangeExists(s.doc.codeforcesHandle, s.ratingChanges[s.idx])
       THEN Set(p, [s EXCEPT !.idx = s.idx + 1])
       ELSE Set(p, [s EXCEPT !.pc = "ratingChangeCreate"])
    /\ UNCHANGED <<Student, Submission, RatingChange, Contest, now, cronVars, rate, controller>>

\* syncRatingChanges loop: RatingChange.create.
CreateRatingChange(p) ==
    LET s == sync[p]
        doc == RatingChangeDoc(s.ratingChanges[s.idx], s.id, s.doc.codeforcesHandle)
    IN
    /\ s.pc = "ratingChangeCreate"
    /\ IF RatingChangeInsertAllowed(doc)
       THEN /\ RatingChange' = Create(RatingChange, doc)
            /\ Set(p, [s EXCEPT !.pc = "ratingChangeExists", !.idx = s.idx + 1,
                                !.ratingChangesAdded = s.ratingChangesAdded + 1])
       ELSE /\ Set(p, Catch(s))
            /\ UNCHANGED RatingChange
    /\ UNCHANGED <<Student, Submission, Contest, now, cronVars, rate, controller>>

\* updateStudentRatings: Student.updateOne({ _id }, update) with the fields
\* the remote profile defines; no update when it defines neither.
updateStudentRatings(stored, user) ==
    [stored EXCEPT
        !.currentRating = IF user.rating # Null THEN user.rating ELSE @,
        !.maxRating = IF user.maxRating # Null THEN user.maxRating ELSE @]

\* syncHandle step 4a.
UpdateStudentRatings(p) ==
    LET s == sync[p] IN
    /\ s.pc = "updateRatings"
    /\ Student' = IF s.id \in DOMAIN Student
                  THEN [Student EXCEPT ![s.id] = updateStudentRatings(@, s.user)]
                  ELSE Student
    /\ Set(p, [s EXCEPT !.pc = NextStep("updateRatings")])
    /\ UNCHANGED <<Submission, RatingChange, Contest, now, cronVars, rate, controller>>

\* student.lastDataUpdate = new Date(), when updateStudentRatings has
\* returned: the time is read here, the write is the save that follows.
Stamp(p) ==
    LET s == sync[p] IN
    /\ s.pc = "stamp"
    /\ Set(p, [s EXCEPT !.pc = "save", !.stamp = now])
    /\ UNCHANGED <<Student, Submission, RatingChange, Contest, now, cronVars, rate, controller>>

\* A save that forgets to stamp lastDataUpdate before it writes.
SaveStudentNoStamp(stored, doc, date) ==
    [stored EXCEPT !.maxRating = IF PreSave(doc).maxRating # doc.maxRating
                                 THEN PreSave(doc).maxRating ELSE @]

\* student.save() of the document stamped with `date`: the pre-save hook
\* runs on the document loaded when the sync began, and the paths modified
\* in memory (lastDataUpdate, and maxRating if the hook set it) are written.
SaveStudent(stored, doc, date) ==
    LET hooked == PreSave([doc EXCEPT !.lastDataUpdate = date]) IN
    [stored EXCEPT
        !.lastDataUpdate = hooked.lastDataUpdate,
        !.maxRating = IF hooked.maxRating # doc.maxRating
                      THEN hooked.maxRating ELSE @]

\* syncHandle step 4b and the success result.
Save(p) ==
    LET s == sync[p] IN
    /\ s.pc = "save"
    /\ IF s.id \in DOMAIN Student
       THEN /\ Student' = [Student EXCEPT ![s.id] = SaveStudent(@, s.doc, s.stamp)]
            /\ Set(p, Return(s, [success |-> TRUE, message |-> "Synced successfully"]))
       ELSE /\ Set(p, Catch(s))
            /\ UNCHANGED Student
    /\ UNCHANGED <<Submission, RatingChange, Contest, now, cronVars, rate, controller>>

\* The caller has the result; the slot is free for the next request.
Respond(p) ==
    /\ sync[p].pc \in {"done", "threw"}
    /\ Set(p, Idle)
    /\ UNCHANGED <<Student, Submission, RatingChange, Contest, now, cronVars, rate, controller>>

----------------------------------------------------------------------------
(* StudentController *)

\* Ratings a PUT /api/students/:id body may carry.
PutRatings == {2000, 4500, 5001}

\* The validators of currentRating and maxRating: min 0, max 5000.
RatingValid(r) == 0 <= r /\ r <= 5000

\* updateStudent with body { currentRating }: findByIdAndUpdate with
\* runValidators, which runs no save hook; a ValidationError is answered
\* with 400. No handle in the body: isHandleChanged is falsy, no sync.
UpdateStudent(id, rating) ==
    /\ id \in DOMAIN Student
    /\ Student' = IF RatingValid(rating)
                  THEN [Student EXCEPT ![id].currentRating = rating]
                  ELSE Student
    /\ UNCHANGED <<Submission, RatingChange, Contest, sync, now, cronVars, rate, controller>>

\* The wall clock advances.
Tick ==
    /\ now < MaxTicks
    /\ now' = now + 1
    /\ UNCHANGED <<Student, Submission, RatingChange, Contest, sync, cronVars, rate, controller>>


\* A field the request body leaves out.
Omitted == ""

\* Emails and handles a request body may carry; "ab" is too short a handle.
BodyEmails == {"A@x.io", "b@x.io"}
BodyHandles == {"tourist", "Petr", "ab"}
NoBody == [email |-> Omitted, codeforcesHandle |-> Omitted]

\* `lowercase: true` of StudentSchema.email (a setter, run on create and on
\* update), on the emails of the model.
toLowerCase(e) == IF e = "A@x.io" THEN "a@x.io" ELSE e

\* handleRegex.test(h) && 3 <= h.length <= 24, on the handles of the model.
HandleValid(h) == h \in {"tourist", "Petr"}

\* validateStudent: every field required, the handle well formed.
validateStudent(body) ==
    /\ body.email # Omitted
    /\ body.codeforcesHandle # Omitted
    /\ HandleValid(body.codeforcesHandle)

\* validateStudentUpdate: the handle well formed if provided.
validateStudentUpdate(body) ==
    body.codeforcesHandle # Omitted => HandleValid(body.codeforcesHandle)

\* new Student(body): the setters and the schema defaults.
StudentDoc(body) ==
    [email |-> toLowerCase(body.email), codeforcesHandle |-> body.codeforcesHandle,
     currentRating |-> Null, maxRating |-> Null, lastDataUpdate |-> Null]

\* The update of findByIdAndUpdate(id, body): the fields of the body, cast.
ApplyUpdate(doc, body) ==
    [doc EXCEPT
        !.email = IF body.email # Omitted THEN toLowerCase(body.email) ELSE @,
        !.codeforcesHandle = IF body.codeforcesHandle # Omitted
                             THEN body.codeforcesHandle ELSE @]

\* A Student schema without `unique: true` on email and codeforcesHandle.
StudentWriteNoIndex(doc, id) == TRUE

\* The unique indexes on email and codeforcesHandle: writing `doc` as the
\* document `id` fails (E11000) when another document holds either value.
StudentWriteAllowed(doc, id) ==
    \A j \in DOMAIN Student \ {id} :
        /\ Student[j].email # doc.email
        /\ Student[j].codeforcesHandle # doc.codeforcesHandle

NoResponse == [op |-> "none", status |-> 0, body |-> NoBody]
\* POST /api/cron/trigger: ran is whether its executeSync started a run,
\* result what triggerManualSync returned.
NoTrigger == [pc |-> "idle", ran |-> FALSE, result |-> FALSE]
PutIdle ==
    [pc |-> "idle", id |-> MissingId, body |-> NoBody, found |-> FALSE,
     old |-> "", isHandleChanged |-> FALSE, doc |-> NoDoc, syncs |-> 0,
     status |-> 0]

\* The largest _id handed out so far.
MaxId(S) == IF S = {} THEN 0 ELSE CHOOSE m \in S : \A k \in S : k <= m

\* POST /api/students: validateStudent, then new Student(body).save() under
\* a fresh _id.
CreateStudent(body) ==
    LET id == controller.created + 1
        doc == StudentDoc(body)
        ok == validateStudent(body) /\ StudentWriteAllowed(doc, id)
    IN
    /\ controller.last = NoResponse
    /\ id \in StudentIds
    /\ Student' = IF ok THEN [j \in DOMAIN Student \cup {id} |->
                                 IF j = id THEN doc ELSE Student[j]]
                  ELSE Student
    /\ controller' = [controller EXCEPT
          !.created = IF ok THEN id ELSE @,
          !.last = [op |-> "create", status |-> IF ok THEN 201 ELSE 400,
                    body |-> body]]
    /\ UNCHANGED <<Submission, RatingChange, Contest, sync, now, cronVars, rate>>

\* DELETE /api/students/:id: findByIdAndDelete.
DeleteStudent(id) ==
    /\ controller.last = NoResponse
    /\ Student' = [j \in DOMAIN Student \ {id} |-> Student[j]]
    /\ controller' = [controller EXCEPT
          !.last = [op |-> "delete",
                    status |-> IF id \in DOMAIN Student THEN 200 ELSE 404,
                    body |-> NoBody]]
    /\ UNCHANGED <<Submission, RatingChange, Contest, sync, now, cronVars, rate>>

\* The response of a create or a delete has been sent.
ResponseSent ==
    /\ controller.last # NoResponse
    /\ controller' = [controller EXCEPT !.last = NoResponse]
    /\ UNCHANGED <<Student, Submission, RatingChange, Contest, sync, now, cronVars, rate>>

\* A PUT that changes whenever the body names a handle.
isHandleChangedAlways(found, oldHandle, bodyHandle) ==
    found /\ bodyHandle # Omitted

\* oldStudent && updateData.codeforcesHandle &&
\* oldStudent.codeforcesHandle !== updateData.codeforcesHandle
isHandleChanged(found, oldHandle, bodyHandle) ==
    found /\ bodyHandle # Omitted /\ oldHandle # bodyHandle

SetPut(r) == controller' = [controller EXCEPT !.put = r]

\* PUT /api/students/:id: validateStudentUpdate, then updateStudent up to
\* its Student.findById(id).
PutFindById(id, body) ==
    LET found == id \in DOMAIN Student
        old == IF found THEN Student[id].codeforcesHandle ELSE ""
    IN
    /\ controller.put.pc = "idle"
    /\ SetPut(IF ~validateStudentUpdate(body)
              THEN [PutIdle EXCEPT !.pc = "responded", !.id = id, !.body = body,
                                   !.status = 400]
              ELSE [PutIdle EXCEPT
                       !.pc = "findByIdAndUpdate", !.id = id, !.body = body,
                       !.found = found, !.old = old,
                       !.isHandleChanged =
                           isHandleChanged(found, old, body.codeforcesHandle)])
    /\ UNCHANGED <<Student, Submission, RatingChange, Contest, sync, now, cronVars, rate>>

\* updateStudent: Student.findByIdAndUpdate(id, body, { new, runValidators }):
\* 404 when there is no such student, 400 on E11000.
PutFindByIdAndUpdate ==
    LET r == controller.put
        doc == ApplyUpdate(Student[r.id], r.body)
    IN
    /\ r.pc = "findByIdAndUpdate"
    /\ IF r.id \notin DOMAIN Student
       THEN /\ SetPut([r EXCEPT !.pc = "responded", !.status = 404])
            /\ UNCHANGED Student
       ELSE IF ~StudentWriteAllowed(doc, r.id)
       THEN /\ SetPut([r EXCEPT !.pc = "responded", !.status = 400])
            /\ UNCHANGED Student
       ELSE /\ Student' = [Student EXCEPT ![r.id] = doc]
            /\ SetPut(IF r.isHandleChanged
                      THEN [r EXCEPT !.pc = "save", !.doc = doc]
                      ELSE [r EXCEPT !.pc = "responded", !.doc = doc,
                                     !.status = 200])
    /\ UNCHANGED <<Submission, RatingChange, Contest, sync, now, cronVars, rate>>

\* updateStudent, handle changed: student.lastDataUpdate = null; save().
\* Nothing is written when no path is modified; a save of modified paths of
\* a document deleted meanwhile rejects (status 500).
PutSave ==
    LET r == controller.put
        modified == SaveStudent(r.doc, r.doc, Null) # r.doc
    IN
    /\ r.pc = "save"
    /\ IF r.id \in DOMAIN Student
       THEN /\ Student' = [Student EXCEPT ![r.id] = SaveStudent(@, r.doc, Null)]
            /\ SetPut([r EXCEPT !.pc = "sync"])
       ELSE /\ UNCHANGED Student
            /\ SetPut(IF modified
                      THEN [r EXCEPT !.pc = "responded", !.status = 500]
                      ELSE [r EXCEPT !.pc = "sync"])
    /\ UNCHANGED <<Submission, RatingChange, Contest, sync, now, cronVars, rate>>

\* updateStudent, handle changed: DataSyncService.syncStudentData(id).
PutSyncStudentData ==
    LET r == controller.put IN
    /\ r.pc = "sync"
    /\ sync["put"].pc = "idle"
    /\ sync' = [sync EXCEPT !["put"] = syncStudentData(r.id, TRUE)]
    /\ SetPut([r EXCEPT !.pc = "syncing", !.syncs = @ + 1])
    /\ UNCHANGED <<Student, Submission, RatingChange, Contest, now, cronVars, rate>>

\* updateStudent: the sync has returned (or thrown, which is caught);
\* sendSuccess.
PutRespond ==
    LET r == controller.put IN
    /\ r.pc = "syncing"
    /\ sync["put"].pc \in {"done", "threw"}
    /\ sync' = [sync EXCEPT !["put"] = Idle]
    /\ SetPut([r EXCEPT !.pc = "responded", !.status = 200])
    /\ UNCHANGED <<Student, Submission, RatingChange, Contest, now, cronVars, rate>>

\* The response of the PUT has been sent.
PutSent ==
    /\ controller.put.pc = "responded"
    /\ SetPut(PutIdle)
    /\ UNCHANGED <<Student, Submission, RatingChange, Contest, sync, now, cronVars, rate>>

----------------------------------------------------------------------------
(* Batch runs: CronJobService.executeSync, DataSyncService.syncAllStudents *)

\* Hours one clock tick stands for.
TickHours == 25
\* parseInt(process.env.SYNC_THRESHOLD_HOURS || '24')
SYNC_THRESHOLD_HOURS == 24
\* Delay between two students of a batch, in ms (delay(1000) in executeSync).
STUDENT_DELAY_MS == 1000

\* process.env.CRON_SCHEDULE || '0 2 * * *'
DefaultSchedule == "0 2 * * *"
\* Schedules a request body or the environment may carry; the last one is
\* not a cron expression (minute 61).
Schedules == {"0 2 * * *", "*/30 * * * *", "0 * * * *", "61 * * * *"}
\* process.env as far as the service reads it; CRON_ENABLED is unset or 'false'.
Envs == [CRON_ENABLED : {Omitted, "false"},
         CRON_SCHEDULE : {Omitted, "*/30 * * * *", "61 * * * *"}]
NoEnv == [CRON_ENABLED |-> Omitted, CRON_SCHEDULE |-> Omitted]

\* a || b on strings: the empty string is falsy.
Or(a, b) == IF a # "" THEN a ELSE b

\* cron.validate(schedule)
validate(schedule) == schedule \in Schedules \ {"61 * * * *"}

\* schedule.startsWith('*/')
StartsWithEvery(schedule) == schedule = "*/30 * * * *"
\* parseInt(schedule.split(' ')[0].substring(2))
EveryMinutes(schedule) == IF schedule = "*/30 * * * *" THEN 30 ELSE 0

\* Date.now() in minutes.
NowMinutes == now * TickHours * 60

\* calculateNextRun, in minutes (UTC): undefined without a task or when not
\* enabled; now + X minutes for "*/X ..."; the next 02:00 for the daily
\* default; now + 1 hour for every other schedule.
calculateNextRun(js, cronTask) ==
    IF cronTask = Null \/ ~js.enabled THEN Null
    ELSE IF StartsWithEvery(js.schedule)
    THEN NowMinutes + EveryMinutes(js.schedule)
    ELSE IF js.schedule = "0 2 * * *"
    THEN LET at2 == (NowMinutes \div 1440) * 1440 + 120
         IN IF at2 <= NowMinutes THEN at2 + 1440 ELSE at2
    ELSE NowMinutes + 60

\* The static fields of CronJobService when the class is loaded. The
\* fields lastRun and nextRun of jobStatus are written and never read
\* (getStatus computes nextRun afresh): the state leaves them out.
StaticJobStatus(env) ==
    [isRunning |-> FALSE, lastResult |-> << >>,
     schedule |-> Or(env.CRON_SCHEDULE, DefaultSchedule), enabled |-> FALSE]

NoCall == [op |-> "none", enabled |-> FALSE, result |-> FALSE]

\* Tasks cron.schedule may create in one behaviour.
MaxTasks == 2

\* cronTask is null and node-cron has created and holds no task.
StaticCron(env) ==
    [cronTask |-> Null, tasks |-> {}, created |-> 0, env |-> env, call |-> NoCall]

\* The state the methods of the service read and write, and what the call
\* in hand returns.
Service ==
    [jobStatus |-> jobStatus, cronTask |-> cron.cronTask, tasks |-> cron.tasks,
     created |-> cron.created, result |-> TRUE]

\* The task cron.schedule creates: a new one each time.
NewTask(created) == created + 1

\* A stopJob that clears the flag and the reference but leaves the task
\* scheduled.
stopJobKeepsTask(svc) ==
    [svc EXCEPT !.cronTask = Null, !.jobStatus.enabled = FALSE, !.result = TRUE]

\* stopJob: the task, if there is one, is stopped and destroyed and the
\* reference cleared; enabled = false; returns true.
stopJob(svc) ==
    [svc EXCEPT !.tasks = @ \ {svc.cronTask}, !.cronTask = Null,
                !.jobStatus.enabled = FALSE, !.result = TRUE]

\* A startJob that does not stop the job first.
startJobNoStop(svc, config) ==
    IF ~validate(config.schedule)
    THEN [svc EXCEPT !.jobStatus.enabled = FALSE, !.result = FALSE]
    ELSE LET task == NewTask(svc.created) IN
         [svc EXCEPT !.cronTask = task, !.tasks = @ \cup {task}, !.created = task,
                     !.jobStatus.enabled = TRUE,
                     !.jobStatus.schedule = config.schedule,
                     !.result = TRUE]

\* startJob(config): stopJob(); an invalid schedule throws to the catch
\* (enabled = false, returns false); otherwise the task is scheduled,
\* enabled = true and the schedule is that of the config; returns true.
startJob(svc, config) ==
    LET s == stopJob(svc) IN
    IF ~validate(config.schedule)
    THEN [s EXCEPT !.jobStatus.enabled = FALSE, !.result = FALSE]
    ELSE LET task == NewTask(s.created) IN
         [s EXCEPT !.cronTask = task, !.tasks = @ \cup {task}, !.created = task,
                   !.jobStatus.enabled = TRUE,
                   !.jobStatus.schedule = config.schedule,
                   !.result = TRUE]

\* initialize(): schedule and enabled from the environment; startJob when
\* enabled.
initialize(svc, env) ==
    LET config == [schedule |-> Or(env.CRON_SCHEDULE, DefaultSchedule),
                   enabled |-> env.CRON_ENABLED # "false"]
        s == [svc EXCEPT !.jobStatus.schedule = config.schedule,
                         !.jobStatus.enabled = config.enabled]
    IN IF config.enabled THEN startJob(s, config) ELSE s

\* updateConfig(config)
updateConfig(svc, config) ==
    IF config.enabled THEN startJob(svc, config) ELSE stopJob(svc)

\* getStatus(): jobStatus with nextRun computed afresh.
getStatus ==
    [isRunning |-> jobStatus.isRunning, lastResult |-> jobStatus.lastResult,
     schedule |-> jobStatus.schedule, enabled |-> jobStatus.enabled,
     nextRun |-> calculateNextRun(jobStatus, cron.cronTask)]

\* The call `op` of the service has returned with the state `svc`.
Called(op, enabled, svc) ==
    /\ jobStatus' = svc.jobStatus
    /\ cron' = [cron EXCEPT !.cronTask = svc.cronTask, !.tasks = svc.tasks,
                            !.created = svc.created,
                            !.call = [op |-> op, enabled |-> enabled,
                                      result |-> svc.result]]
    /\ UNCHANGED <<Student, Submission, RatingChange, Contest, sync, now, batch,
                   rate, controller>>

\* The entry point calls CronJobService.initialize() before it serves a
\* request.
Initialize ==
    /\ cron.call = NoCall
    /\ cron.created < MaxTasks
    /\ Called("initialize", cron.env.CRON_ENABLED # "false",
              initialize(Service, cron.env))

\* POST /api/cron/start with body { schedule }.
StartJob(schedule) ==
    /\ cron.created < MaxTasks
    /\ Called("startJob", TRUE,
              startJob(Service,
                       [schedule |-> Or(schedule, Or(cron.env.CRON_SCHEDULE,
                                                     DefaultSchedule)),
                        enabled |-> TRUE]))

\* POST /api/cron/stop
StopJob == Called("stopJob", FALSE, stopJob(Service))

\* PUT /api/cron/config with body { schedule, enabled }; a body without a
\* schedule, or whose enabled is not a boolean (isBoolean false), is
\* answered 400 and the service is not called.
UpdateConfig(schedule, enabled, isBoolean) ==
    IF schedule = Omitted \/ ~isBoolean
    THEN UNCHANGED vars
    ELSE /\ enabled => cron.created < MaxTasks
         /\ Called("updateConfig", enabled,
                   updateConfig(Service, [schedule |-> schedule, enabled |-> enabled]))

NoBatch ==
    [kind |-> "none", trigger |-> "none", forceAll |-> FALSE, pc |-> "none",
     list |-> << >>, i |-> 0,
     processed |-> 0, errors |-> 0,
     successfulSyncs |-> 0, failedSyncs |-> 0, results |-> << >>,
     synced |-> << >>, waited |-> 0]

\* Student.find(filter): the documents whose _id is in `ids` (those the
\* filter matches), in _id order.
RECURSIVE Find(_)
Find(ids) ==
    IF ids = {} THEN << >>
    ELSE LET id == CHOOSE x \in ids : \A y \in ids : x <= y
         IN <<[id |-> id, doc |-> Student[id]]>> \o Find(ids \ {id})

\* { $or: [{ lastDataUpdate: null }, { lastDataUpdate: { $lt: thresholdTime } }] }
\* with thresholdTime = Date.now() - hoursThreshold hours.
NeedsUpdate(doc) ==
    \/ doc.lastDataUpdate = Null
    \/ doc.lastDataUpdate * TickHours < now * TickHours - SYNC_THRESHOLD_HOURS

\* A staleness filter that has lost its $lt clause.
getStudentsNeverUpdated ==
    Find({id \in DOMAIN Student : Student[id].lastDataUpdate = Null})

\* getStudentsNeedingUpdate (for manual syncs)
getStudentsNeedingUpdate ==
    Find({id \in DOMAIN Student : NeedsUpdate(Student[id])})

\* A scheduled listing that applies the staleness filter of the manual one.
getAllStudentsStale == getStudentsNeedingUpdate

\* getAllStudents (for scheduled syncs)
getAllStudents == Find(DOMAIN Student)

\* A finally that leaves isRunning as it is.
FinallyStillRunning(result) ==
    /\ jobStatus' = [jobStatus EXCEPT !.lastResult = <<result>>]
    /\ batch' = NoBatch
    /\ UNCHANGED <<controller, cron>>

\* The finally of executeSync; the run of a manual trigger returns to
\* triggerManualSync, which returns true.
Finally(result) ==
    /\ jobStatus' = [jobStatus EXCEPT !.isRunning = FALSE, !.lastResult = <<result>>]
    /\ batch' = NoBatch
    /\ UNCHANGED cron
    /\ controller' = IF batch.trigger = "manual"
                     THEN [controller EXCEPT !.trigger.pc = "returned",
                                             !.trigger.result = TRUE]
                     ELSE controller

\* An executeSync that does not look at isRunning.
AlreadyRunningIgnored == FALSE

\* if (this.jobStatus.isRunning) return;
AlreadyRunning == jobStatus.isRunning

\* executeSync(forceAll), up to its first await. `trigger` is the caller:
\* the cron task (forceAll true) or triggerManualSync (forceAll false).
ExecuteSync(trigger, forceAll) ==
    /\ IF AlreadyRunning
       THEN UNCHANGED <<batch, jobStatus>>
       ELSE /\ jobStatus' = [jobStatus EXCEPT !.isRunning = TRUE]
            /\ batch' = [NoBatch EXCEPT !.kind = "executeSync", !.trigger = trigger,
                                        !.forceAll = forceAll, !.pc = "list"]
    /\ UNCHANGED <<Student, Submission, RatingChange, Contest, sync, now, rate, cron>>

\* A task node-cron holds scheduled fires: () => this.executeSync(true).
ScheduledRun ==
    /\ cron.tasks # {}
    /\ ExecuteSync("cron", TRUE)
    /\ UNCHANGED controller

\* POST /api/cron/trigger: triggerManualSync awaits executeSync(false) and
\* returns true; an executeSync that finds a run in progress returns at once.
TriggerManualSync ==
    /\ controller.trigger.pc = "idle"
    /\ ExecuteSync("manual", FALSE)
    /\ controller' = [controller EXCEPT !.trigger =
          IF AlreadyRunning
          THEN [pc |-> "returned", ran |-> FALSE, result |-> TRUE]
          ELSE [pc |-> "awaiting", ran |-> TRUE, result |-> FALSE]]

\* CronJobController.triggerManualSync sends its response.
TriggerResponded ==
    /\ controller.trigger.pc = "returned"
    /\ controller' = [controller EXCEPT !.trigger = NoTrigger]
    /\ UNCHANGED <<Student, Submission, RatingChange, Contest, sync, now, cronVars, rate>>

\* executeSync: the students of the run are listed; an Error of the store
\* goes to the outer catch; an empty selection ends the run.
SelectStudents(dbOk) ==
    LET list == IF batch.forceAll THEN getAllStudents ELSE getStudentsNeedingUpdate IN
    /\ batch.kind = "executeSync"
    /\ batch.pc = "list"
    /\ IF ~dbOk
       THEN Finally([success |-> FALSE, studentsProcessed |-> 0, errors |-> 1])
       ELSE IF Len(list) = 0
       THEN Finally([success |-> TRUE, studentsProcessed |-> 0, errors |-> 0])
       ELSE /\ batch' = [batch EXCEPT !.pc = "loop", !.list = list, !.i = 1]
            /\ UNCHANGED <<jobStatus, controller, cron>>
    /\ UNCHANGED <<Student, Submission, RatingChange, Contest, sync, now, rate>>

\* POST /api/codeforces/sync/all: syncAllStudents lists every student.
SyncAllStudents ==
    /\ batch.kind = "none"
    /\ batch' = [NoBatch EXCEPT !.kind = "syncAllStudents", !.pc = "loop",
                                !.list = getAllStudents, !.i = 1]
    /\ UNCHANGED <<Student, Submission, RatingChange, Contest, sync, now, jobStatus, cron, rate, controller>>

\* A loop that gives up at the first student whose sync fails.
NextStudentAbort(i, n, success) == IF success THEN i + 1 ELSE n + 1

\* for (const student of students): the student after the i-th of n, whatever
\* the i-th sync returned.
NextStudent(i, n, success) == i + 1

\* An inner catch that does not count the Error.
ErrorsAfterCatchUncounted(errors) == errors

\* The inner catch of executeSync: errors++.
ErrorsAfterCatch(errors) == errors + 1

\* executeSync loop body: syncStudentData(student._id) is called. When it
\* throws, the inner catch counts an error and the delay is skipped.
ExecuteSyncStudent(dbOk) ==
    LET id == batch.list[batch.i].id
        s == syncStudentData(id, dbOk)
    IN
    /\ batch.kind = "executeSync"
    /\ batch.pc = "loop"
    /\ batch.i <= Len(batch.list)
    /\ IF s.pc = "threw"
       THEN /\ batch' = [batch EXCEPT !.errors = ErrorsAfterCatch(@),
                                      !.synced = Append(@, id),
                                      !.waited = 0,
                                      !.i = NextStudent(@, Len(batch.list), FALSE)]
            /\ UNCHANGED sync
       ELSE /\ batch' = [batch EXCEPT !.pc = "syncing", !.synced = Append(@, id)]
            /\ Set("batch", s)
    /\ UNCHANGED <<Student, Submission, RatingChange, Contest, now, jobStatus, cron, rate, controller>>

\* syncAllStudents loop body: syncHandle(handle, student) with the document
\* of the listing.
SyncAllStudent ==
    LET e == batch.list[batch.i] IN
    /\ batch.kind = "syncAllStudents"
    /\ batch.pc = "loop"
    /\ batch.i <= Len(batch.list)
    /\ batch' = [batch EXCEPT !.pc = "syncing", !.synced = Append(@, e.id)]
    /\ Set("batch", [Idle EXCEPT !.pc = "validate", !.id = e.id, !.doc = e.doc])
    /\ UNCHANGED <<Student, Submission, RatingChange, Contest, now, jobStatus, cron, rate, controller>>

\* The sync of the batch's student has returned: the result is counted.
Collect ==
    LET res == sync["batch"].result
        e == batch.list[batch.i]
    IN
    /\ batch.pc = "syncing"
    /\ sync["batch"].pc = "done"
    /\ batch' =
         [batch EXCEPT
            !.pc = "delay",
            !.waited = 0,
            !.i = NextStudent(@, Len(batch.list), res.success),
            !.processed = IF batch.kind = "executeSync" /\ res.success THEN @ + 1 ELSE @,
            !.errors = IF batch.kind = "executeSync" /\ ~res.success THEN @ + 1 ELSE @,
            !.successfulSyncs =
                IF batch.kind = "syncAllStudents" /\ res.success THEN @ + 1 ELSE @,
            !.failedSyncs =
                IF batch.kind = "syncAllStudents" /\ ~res.success THEN @ + 1 ELSE @,
            !.results =
                IF batch.kind = "syncAllStudents"
                THEN Append(@, [studentId |-> e.id,
                                handle |-> e.doc.codeforcesHandle,
                                result |-> res])
                ELSE @]
    /\ Set("batch", Idle)
    /\ UNCHANGED <<Student, Submission, RatingChange, Contest, now, jobStatus, cron, rate, controller>>

\* await this.delay(STUDENT_DELAY_MS): resolves no earlier than that later.
Delay ==
    /\ batch.pc = "delay"
    /\ batch' = [batch EXCEPT !.pc = "loop", !.waited = @ + STUDENT_DELAY_MS]
    /\ UNCHANGED <<Student, Submission, RatingChange, Contest, sync, now, jobStatus, cron, rate, controller>>

\* executeSync after the loop: lastResult, then the finally.
FinishExecuteSync ==
    /\ batch.kind = "executeSync"
    /\ batch.pc = "loop"
    /\ batch.i > Len(batch.list)
    /\ Finally([success |-> batch.errors = 0,
                studentsProcessed |-> batch.processed,
                errors |-> batch.errors])
    /\ UNCHANGED <<Student, Submission, RatingChange, Contest, sync, now, rate>>

\* syncAllStudents after the loop: the GlobalSyncStats are returned.
ReturnSyncAll ==
    /\ batch.kind = "syncAllStudents"
    /\ batch.pc = "loop"
    /\ batch.i > Len(batch.list)
    /\ batch' = [batch EXCEPT !.pc = "returned"]
    /\ UNCHANGED <<Student, Submission, RatingChange, Contest, sync, now, jobStatus, cron, rate, controller>>

\* The controller sends the response of sync/all.
RespondSyncAll ==
    /\ batch.pc = "returned"
    /\ batch' = NoBatch
    /\ UNCHANGED <<Student, Submission, RatingChange, Contest, sync, now, jobStatus, cron, rate, controller>>

----------------------------------------------------------------------------
(* CodeforcesService.makeRequest on a millisecond clock: when the remote    *)
(* calls of one syncHandle are sent                                         *)

\* Milliseconds one step of the millisecond clock stands for.
ClockStepMs == 100
\* Steps the millisecond clock may take.
MaxClockSteps == 12
\* REQUEST_DELAY: makeRequest waits this long, then sends.
REQUEST_DELAY == 200

\* The remote calls syncHandle makes, in its order; those of one stage are
\* started together (getUserStats: the array given to Promise.allSettled).
StageCalls(stage) ==
    CASE stage = "validateHandle" -> {"getUserInfo"}
      [] stage = "getUserStats" ->
            {"getUserInfo", "getUserRatingChanges", "getUserSubmissions"}
      [] stage = "getUserStatsCount" -> {"getUserSubmissions"}
      [] stage = "syncContests" -> {"getContests"}
      [] stage = "syncSubmissions" -> {"getUserSubmissions"}
      [] OTHER -> {}

\* The stage after `stage`; ok: whether its calls let syncHandle go on
\* (an invalid handle returns, a rejected user info or submissions list
\* throws; the other Errors are swallowed).
StageAfter(stage, ok) ==
    CASE stage = "validateHandle" -> IF ok THEN "getUserStats" ELSE "idle"
      [] stage = "getUserStats" -> IF ok THEN "getUserStatsCount" ELSE "idle"
      [] stage = "getUserStatsCount" -> "syncContests"
      [] stage = "syncContests" -> "syncSubmissions"
      [] OTHER -> "idle"

NoRate == [clock |-> 0, stage |-> "idle", calls |-> << >>, sent |-> << >>]

\* Every call of the stage runs makeRequest up to its setTimeout.
Enter(stage) ==
    [rate EXCEPT !.stage = stage,
                 !.calls = [c \in StageCalls(stage) |->
                               [pc |-> "delay", timer |-> rate.clock]]]

\* The last two times a request was sent.
Sent(t) == IF Len(rate.sent) < 2 THEN Append(rate.sent, t)
           ELSE <<rate.sent[2], t>>

\* syncHandle begins: validateHandle.
RateStartSync ==
    /\ rate.stage = "idle"
    /\ rate' = Enter("validateHandle")
    /\ UNCHANGED <<Student, Submission, RatingChange, Contest, sync, now, cronVars, controller>>

\* makeRequest: the setTimeout of REQUEST_DELAY has fired, axios.get sends.
RateSend(c) ==
    /\ c \in DOMAIN rate.calls
    /\ rate.calls[c].pc = "delay"
    /\ rate.clock * ClockStepMs >= rate.calls[c].timer * ClockStepMs + REQUEST_DELAY
    /\ rate' = [rate EXCEPT !.calls[c].pc = "sent", !.sent = Sent(rate.clock)]
    /\ UNCHANGED <<Student, Submission, RatingChange, Contest, sync, now, cronVars, controller>>

\* The response (or the Error) of the request arrives.
RateSettle(c) ==
    /\ c \in DOMAIN rate.calls
    /\ rate.calls[c].pc = "sent"
    /\ rate' = [rate EXCEPT !.calls[c].pc = "settled"]
    /\ UNCHANGED <<Student, Submission, RatingChange, Contest, sync, now, cronVars, controller>>

\* Every call of the stage has settled: syncHandle goes on, or returns.
RateNext(ok) ==
    /\ rate.stage # "idle"
    /\ \A c \in DOMAIN rate.calls : rate.calls[c].pc = "settled"
    /\ rate' = IF StageAfter(rate.stage, ok) = "idle"
               THEN [rate EXCEPT !.stage = "idle", !.calls = << >>]
               ELSE Enter(StageAfter(rate.stage, ok))
    /\ UNCHANGED <<Student, Submission, RatingChange, Contest, sync, now, cronVars, controller>>

\* The millisecond clock advances.
RateTick ==
    /\ rate.clock < MaxClockSteps
    /\ rate' = [rate EXCEPT !.clock = @ + 1]
    /\ UNCHANGED <<Student, Submission, RatingChange, Contest, sync, now, cronVars, controller>>

----------------------------------------------------------------------------
\* The server is up, the students in S have been created (POST
\* /api/students with no rating in the body), nothing has been synced.
InitService(S, status, service) ==
    /\ Student = [id \in S |-> NewStudent(id)]
    /\ Submission = EmptyBag
    /\ RatingChange = EmptyBag
    /\ Contest = {}
    /\ sync = [p \in Slots |-> Idle]
    /\ now = 0
    /\ batch = NoBatch
    /\ jobStatus = status
    /\ cron = service
    /\ rate = NoRate
    /\ controller = [put |-> PutIdle, created |-> MaxId(S), last |-> NoResponse,
                     trigger |-> NoTrigger]

\* ... and the service as the class is loaded: nothing is scheduled.
InitWith(S) == InitService(S, StaticJobStatus(NoEnv), StaticCron(NoEnv))

\* ... and the job started by POST /api/cron/start with an empty body.
InitStarted(S) ==
    LET svc == startJob([jobStatus |-> StaticJobStatus(NoEnv), cronTask |-> Null,
                         tasks |-> {}, created |-> 0, result |-> TRUE],
                        [schedule |-> DefaultSchedule, enabled |-> TRUE])
    IN InitService(S, svc.jobStatus,
                   [cronTask |-> svc.cronTask, tasks |-> svc.tasks,
                    created |-> svc.created, env |-> NoEnv,
                    call |-> [op |-> "startJob", enabled |-> TRUE,
                              result |-> svc.result]])

\* One step of the sync in slot p; R: what the remote calls may come back with.
SyncStep(p, R) ==
    \/ \E resp \in R : ValidateHandle(p, resp)
    \/ \E rUser, rRating, rSub \in R : GetUserStats(p, rUser, rRating, rSub)
    \/ \E resp \in R : GetUserStatsCount(p, resp)
    \/ \E resp \in R : SyncContests(p, resp)
    \/ \E resp \in R : FetchSubmissions(p, resp)
    \/ CheckSubmission(p)
    \/ CreateSubmission(p)
    \/ CheckRatingChange(p)
    \/ CreateRatingChange(p)
    \/ UpdateStudentRatings(p)
    \/ Stamp(p)
    \/ Save(p)

\* POST /api/codeforces/sync/student/:id and sync/force/:id in the slots P.
SyncRequests(P, R) ==
    \/ \E p \in P, id \in StudentIds \cup {MissingId}, dbOk \in BOOLEAN :
          SyncStudentData(p, id, dbOk)
    \/ \E p \in P : SyncStep(p, R)
    \/ \E p \in P : Respond(p)

\* A collection of one student.
Init == \E id \in StudentIds : InitWith({id})

\* Requests served one at a time: a sync with every remote outcome, or a
\* PUT between two syncs; the clock runs.
Next ==
    \/ SyncRequests({"reqA"}, Responses)
    \/ /\ \A p \in Slots : sync[p].pc = "idle"
       /\ \E id \in StudentIds, r \in PutRatings : UpdateStudent(id, r)
    \/ Tick

Spec == Init /\ [][Next]_vars

\* Syncs served one at a time, each with every outcome of its remote calls;
\* a client repeats a sync that succeeded.
NextRepeat ==
    \/ SyncRequests({"reqA"}, Responses)
    \/ \E dbOk \in BOOLEAN : Resync("reqA", dbOk)

SpecRepeat == Init /\ [][NextRepeat]_vars

\* Two syncs whose steps interleave; a remote call succeeds or times out.
NextConcurrent == SyncRequests(Procs, {"OK", "ECONNABORTED"})

SpecConcurrent == Init /\ [][NextConcurrent]_vars

\* Two syncs whose steps interleave while the clock runs; the remote
\* platform answers every call.
NextClock ==
    \/ SyncRequests(Procs, {"OK"})
    \/ Tick

SpecClock == Init /\ [][NextClock]_vars

\* A collection of two students; the job has been started.
InitBatch == InitStarted(StudentIds)

\* Batch runs, one at a time: runs of the schedule, manual triggers and
\* POST sync/all; a remote call succeeds or times out; the clock runs.
NextBatch ==
    \/ batch.kind # "syncAllStudents" /\ ScheduledRun
    \/ batch.kind # "syncAllStudents" /\ TriggerManualSync
    \/ TriggerResponded
    \/ \E dbOk \in BOOLEAN : SelectStudents(dbOk)
    \/ \E dbOk \in BOOLEAN : ExecuteSyncStudent(dbOk)
    \/ SyncAllStudents
    \/ SyncAllStudent
    \/ SyncStep("batch", {"OK", "ECONNABORTED"})
    \/ Collect
    \/ Delay
    \/ FinishExecuteSync
    \/ ReturnSyncAll
    \/ RespondSyncAll
    \/ Tick

SpecBatch == InitBatch /\ [][NextBatch]_vars

\* The server as its entry point leaves it: one student, the environment
\* any of Envs, the service as the class is loaded.
InitCron ==
    \E env \in Envs : InitService({1}, StaticJobStatus(env), StaticCron(env))

\* The requests of /api/cron.
CronRequests ==
    \/ \E schedule \in Schedules \cup {Omitted} : StartJob(schedule)
    \/ StopJob
    \/ \E schedule \in {Omitted, "0 * * * *", "61 * * * *"}, enabled, isBoolean \in BOOLEAN :
          UpdateConfig(schedule, enabled, isBoolean)
    \/ TriggerManualSync
    \/ TriggerResponded

\* A run of executeSync, the store and the remote platform answering.
CronRun ==
    \/ SelectStudents(TRUE)
    \/ ExecuteSyncStudent(TRUE)
    \/ SyncStep("batch", {"OK"})
    \/ Collect
    \/ Delay
    \/ FinishExecuteSync

\* The server: requests of /api/cron, the tasks firing, the runs.
NextCron ==
    \/ CronRequests
    \/ ScheduledRun
    \/ CronRun

SpecCron == InitCron /\ [][NextCron]_vars

\* CronJobService used as its comments say: initialize() is the first call,
\* at startup; then the requests, the tasks and the runs.
NextService ==
    \/ Initialize
    \/ cron.call # NoCall /\ CronRequests
    \/ cron.call # NoCall /\ ScheduledRun
    \/ CronRun

SpecService == InitCron /\ [][NextService]_vars

\* The steps of an executeSync run: each is an await that resolves or
\* rejects.
RunStep ==
    \/ \E dbOk \in BOOLEAN : SelectStudents(dbOk)
    \/ \E dbOk \in BOOLEAN : ExecuteSyncStudent(dbOk)
    \/ SyncStep("batch", {"OK", "ECONNABORTED"})
    \/ Collect
    \/ Delay
    \/ FinishExecuteSync

\* Runs of the schedule and manual triggers; every await of a run in
\* progress eventually resolves or rejects.
NextRun ==
    \/ ScheduledRun
    \/ TriggerManualSync
    \/ TriggerResponded
    \/ RunStep

SpecRun == InitBatch /\ [][NextRun]_vars /\ WF_vars(RunStep)

\* The remote calls of the syncs of one student, one sync after the other,
\* on the millisecond clock.
NextRate ==
    \/ RateStartSync
    \/ \E c \in DOMAIN rate.calls : RateSend(c)
    \/ \E c \in DOMAIN rate.calls : RateSettle(c)
    \/ \E ok \in BOOLEAN : RateNext(ok)
    \/ RateTick

SpecRate == Init /\ [][NextRate]_vars

\* The requests of StudentController: creates, deletes and one PUT at a
\* time, with the sync a PUT of a new handle runs (every remote call
\* answered).
InitStudents == InitWith({1})

NextStudents ==
    \/ \E e \in BodyEmails, h \in BodyHandles :
          CreateStudent([email |-> e, codeforcesHandle |-> h])
    \/ \E id \in StudentIds \cup {MissingId} : DeleteStudent(id)
    \/ ResponseSent
    \/ \E id \in StudentIds \cup {MissingId},
          e \in BodyEmails \cup {Omitted}, h \in BodyHandles \cup {Omitted} :
          PutFindById(id, [email |-> e, codeforcesHandle |-> h])
    \/ PutFindByIdAndUpdate
    \/ PutSave
    \/ PutSyncStudentData
    \/ SyncStep("put", {"OK"})
    \/ PutRespond
    \/ PutSent

SpecStudents == InitStudents /\ [][NextStudents]_vars

----------------------------------------------------------------------------
(* Properties *)

\* The sync in slot p has just returned success (the step is its save).
ReturnsSuccess(p) ==
    /\ sync[p].pc = "save"
    /\ sync'[p].pc = "done"
    /\ sync'[p].result.success

\* The sync in slot p has returned success and the caller holds the result.
Succeeded(p) == sync[p].pc = "done" /\ sync[p].result.success

\* C1: the Submission collection never holds two documents with the same
\* submissionId, whatever the interleaving of the syncs.
C1_UniqueSubmissionId ==
    \A d \in BagToSet(Submission) :
        /\ CopiesIn(d, Submission) = 1
        /\ \A e \in BagToSet(Submission) : e.submissionId = d.submissionId => e = d

\* A sync is about to create a submission that another sync has stored
\* since this one found it absent.
C1_Witness ==
    \E p \in Slots :
        /\ sync[p].pc = "submissionCreate"
        /\ SubmissionExists(sync[p].submissions[sync[p].idx])

\* C2: the RatingChange collection never holds two documents with the same
\* (codeforcesHandle, contestId) pair, whatever the interleaving.
C2_UniqueRatingChange ==
    \A d \in BagToSet(RatingChange) :
        /\ CopiesIn(d, RatingChange) = 1
        /\ \A e \in BagToSet(RatingChange) :
              (e.codeforcesHandle = d.codeforcesHandle /\ e.contestId = d.contestId)
                  => e = d

\* A sync is about to create a rating change that another sync has stored
\* since this one found it absent.
C2_Witness ==
    \E p \in Slots :
        /\ sync[p].pc = "ratingChangeCreate"
        /\ RatingChangeExists(sync[p].doc.codeforcesHandle,
                              sync[p].ratingChanges[sync[p].idx])

\* C3 (as claimed): no sync in which a remote call failed returns success.
C3_RemoteFailureAborts ==
    \A p \in Slots : (sync[p].pc = "done" /\ sync[p].remoteFailed)
                          => ~sync[p].result.success

\* C5 (as claimed): when a sync returns success, every submission and every
\* rating change the remote platform holds for the handle is stored.
C5_SuccessStoresAll ==
    \A p \in Slots :
        Succeeded(p) =>
            LET h == sync[p].doc.codeforcesHandle IN
            /\ \A i \in DOMAIN RemoteSubmissions(h) :
                  SubmissionExists(RemoteSubmissions(h)[i])
            /\ \A i \in DOMAIN RemoteRatingChanges(h) :
                  RatingChangeExists(h, RemoteRatingChanges(h)[i])

\* C6 (as claimed): a sync that returns success leaves the stored
\* currentRating and maxRating equal to those of the remote profile, where
\* the profile defines them, whatever the student held before.
C6_RatingsEqualRemote ==
    [][\A p \in Slots :
          ReturnsSuccess(p) =>
              LET u == RemoteUser(sync[p].doc.codeforcesHandle)
                  st == Student'[sync[p].id]
              IN /\ u.rating # Null => st.currentRating = u.rating
                 /\ u.maxRating # Null => st.maxRating = u.maxRating]_vars

ListedIds(list) == [k \in DOMAIN list |-> list[k].id]

\* C4: in a batch run every listed student is synced exactly once, in the
\* order of the listing, whatever the syncs before it returned or threw, and
\* syncAllStudents returns one result entry per listed student.
C4_BatchSyncsEveryStudentOnce ==
    LET ids == ListedIds(batch.list) IN
    /\ batch.pc \in {"loop", "delay"} =>
          /\ batch.i <= Len(ids) + 1
          /\ batch.synced = SubSeq(ids, 1, batch.i - 1)
    /\ batch.pc = "syncing" => batch.synced = SubSeq(ids, 1, batch.i)
    /\ batch.pc = "returned" =>
          /\ batch.synced = ids
          /\ Len(batch.results) = Len(ids)
          /\ \A k \in DOMAIN ids : batch.results[k].studentId = ids[k]

\* syncAllStudents has returned two entries, the first of a failed sync, the
\* second of a sync that succeeded after it.
C4_Witness ==
    /\ batch.pc = "returned"
    /\ Len(batch.results) = 2
    /\ ~batch.results[1].result.success
    /\ batch.results[2].result.success

\* C8 (as claimed): a run fired by the schedule invokes the sync engine only
\* for students whose data is stale.
C8_ScheduledRunSyncsOnlyStale ==
    [][(batch.trigger = "cron" /\ Len(batch'.synced) > Len(batch.synced))
          => NeedsUpdate(Student[batch.list[batch.i].id])]_vars

\* C8 (amended): a run fired by the schedule lists, and so syncs, every
\* student of the collection, stale or not.
C8_ScheduledRunListsAll ==
    [][(batch.trigger = "cron" /\ batch.pc = "list" /\ batch'.pc = "loop")
          => {batch'.list[k].id : k \in DOMAIN batch'.list} = DOMAIN Student]_vars

\* A run fired by the schedule is syncing a student whose data was fresh
\* when the run listed it.
C8_Witness ==
    /\ batch.trigger = "cron"
    /\ batch.pc = "syncing"
    /\ sync["batch"].pc = "validate"
    /\ ~NeedsUpdate(batch.list[batch.i].doc)

\* C10 (as claimed): in a batch run the sync of the next student starts no
\* earlier than STUDENT_DELAY_MS after the sync of the student before it
\* ended, whether that sync succeeded, returned failure or threw.
C10_DelayBetweenStudents ==
    (batch.pc = "syncing" /\ batch.i > 1) => batch.waited >= STUDENT_DELAY_MS


\* C9 (as claimed): any two remote requests are sent at least REQUEST_DELAY
\* apart, those made inside one student's sync included.
C9_RequestsSpaced ==
    Len(rate.sent) = 2 =>
        (rate.sent[2] - rate.sent[1]) * ClockStepMs >= REQUEST_DELAY

\* The sync in slot p has loaded its student and has not returned.
InProgress(p) == sync[p].pc \notin {"idle", "done", "threw"}

\* C11 (as claimed): at no time are two syncs of the same student in
\* progress.
C11_NoConcurrentSyncs ==
    \A p, q \in Slots :
        (p # q /\ InProgress(p) /\ InProgress(q)) => sync[p].id # sync[q].id

\* C12: a PUT answered with success that names, for an existing student, a
\* handle other than the stored one runs exactly one sync of that student
\* before it responds, and that sync loads the student with the new handle
\* and lastDataUpdate null; every other PUT runs no sync.
C12_HandleChangeSyncsOnce ==
    LET r == controller.put
        changes == /\ r.found
                   /\ r.body.codeforcesHandle # Omitted
                   /\ r.body.codeforcesHandle # r.old
                   /\ r.status = 200
    IN
    /\ r.pc = "responded" => r.syncs = (IF changes THEN 1 ELSE 0)
    /\ (r.pc = "sync" /\ r.id \in DOMAIN Student) =>
          Student[r.id].lastDataUpdate = Null
    /\ (r.pc = "syncing" /\ sync["put"].pc = "validate") =>
          /\ sync["put"].doc.codeforcesHandle = r.body.codeforcesHandle
          /\ sync["put"].doc.lastDataUpdate = Null

\* A PUT has changed the handle of a student synced before, and has
\* responded after its one sync.
C12_Witness ==
    /\ controller.put.pc = "responded"
    /\ controller.put.status = 200
    /\ controller.put.syncs = 1
    /\ controller.put.doc.lastDataUpdate # Null

\* Some student other than `id` holds the email or the handle that `body`
\* names, as stored.
Duplicates(body, id) ==
    \E j \in DOMAIN Student \ {id} :
        \/ body.email # Omitted /\ Student[j].email = toLowerCase(body.email)
        \/ body.codeforcesHandle # Omitted
              /\ Student[j].codeforcesHandle = body.codeforcesHandle

\* C13: no two students hold the same email or the same codeforcesHandle;
\* a create or an update that would duplicate one is answered with status
\* 400 and leaves the Student collection unchanged.
C13_UniqueEmailAndHandle ==
    /\ [](\A i, j \in DOMAIN Student :
            i # j => /\ Student[i].email # Student[j].email
                     /\ Student[i].codeforcesHandle # Student[j].codeforcesHandle)
    /\ [][(controller.last = NoResponse /\ controller'.last.op = "create"
             /\ Duplicates(controller'.last.body, MissingId))
            => (controller'.last.status = 400 /\ Student' = Student)]_vars
    /\ [][(controller.put.pc = "findByIdAndUpdate"
             /\ controller'.put.pc # "findByIdAndUpdate"
             /\ controller.put.id \in DOMAIN Student
             /\ Duplicates(controller.put.body, controller.put.id))
            => (controller'.put.status = 400 /\ Student' = Student)]_vars

\* A create whose email differs from a stored one only in case has been
\* answered with status 400.
C13_Witness ==
    /\ controller.last.op = "create"
    /\ controller.last.status = 400
    /\ controller.last.body.email = "A@x.io"
    /\ HandleValid(controller.last.body.codeforcesHandle)
    /\ \A j \in DOMAIN Student :
          Student[j].codeforcesHandle # controller.last.body.codeforcesHandle
    /\ \E j \in DOMAIN Student : Student[j].email = "a@x.io"

\* C14 (as claimed): every stored currentRating and maxRating is null or
\* within 0..4000.
C14_RatingsWithin4000 ==
    \A id \in DOMAIN Student :
        /\ Student[id].currentRating \in {Null} \cup (0..4000)
        /\ Student[id].maxRating \in {Null} \cup (0..4000)

\* C15: no step of a sync deletes or modifies a stored Submission or
\* RatingChange: every document of either collection is still there, with
\* the same fields, after the step.
C15_AppendOnly ==
    [][/\ \A d \in BagToSet(Submission) :
             CopiesIn(d, Submission') >= CopiesIn(d, Submission)
       /\ \A d \in BagToSet(RatingChange) :
             CopiesIn(d, RatingChange') >= CopiesIn(d, RatingChange)]_vars

\* A sync has returned success having added submissions to a collection
\* that held others.
C15_Witness ==
    \E p \in Slots :
        /\ Succeeded(p)
        /\ sync[p].submissionsAdded > 0
        /\ BagCardinality(Submission) > sync[p].submissionsAdded

\* The students never synced, or synced more than SYNC_THRESHOLD_HOURS ago.
StaleIds ==
    {id \in DOMAIN Student :
        \/ Student[id].lastDataUpdate = Null
        \/ (now - Student[id].lastDataUpdate) * TickHours > SYNC_THRESHOLD_HOURS}

\* C16: a run started by the manual trigger selects exactly the students
\* that are stale at the moment of selection, and when it ends it has synced
\* exactly the students it selected.
C16_ManualRunSyncsExactlyStale ==
    [][(batch.trigger = "manual" /\ batch.kind = "executeSync") =>
          /\ (batch.pc = "list" /\ batch'.pc = "loop") =>
                {batch'.list[k].id : k \in DOMAIN batch'.list} = StaleIds
          /\ (batch.pc = "list" /\ batch'.kind = "none"
                /\ jobStatus'.lastResult[1].success) => StaleIds = {}
          /\ (batch.pc # "list" /\ batch'.kind = "none") =>
                batch.synced = ListedIds(batch.list)]_vars

\* A manual run has selected the one student synced more than the threshold
\* ago and left out the student synced since.
C16_Witness ==
    /\ batch.trigger = "manual"
    /\ batch.pc = "loop"
    /\ Len(batch.list) = 1
    /\ batch.list[1].doc.lastDataUpdate # Null
    /\ \A id \in DOMAIN Student : Student[id].lastDataUpdate # Null

\* C17: isRunning is true exactly while an executeSync run is in progress,
\* and no step taken while it is true starts a run: a trigger that arrives
\* then leaves the run in progress, and the sync of its student, as they are.
C17_OneRunAtATime ==
    /\ [](jobStatus.isRunning <=> batch.kind = "executeSync")
    /\ [][(jobStatus.isRunning /\ batch'.pc = "list") => batch' = batch]_vars
    /\ [][(controller.trigger.pc = "idle" /\ controller'.trigger.pc = "returned")
            => (batch' = batch /\ sync' = sync /\ jobStatus' = jobStatus)]_vars

\* A manual trigger has arrived during a scheduled run that is syncing a
\* student, and has been skipped.
C17_Witness ==
    /\ controller.trigger.pc = "returned"
    /\ ~controller.trigger.ran
    /\ batch.trigger = "cron"
    /\ batch.pc = "syncing"
    /\ jobStatus.isRunning

\* C18 (as claimed): triggerManualSync returns true only when its
\* executeSync started a run.
C18_TrueOnlyWhenRan ==
    (controller.trigger.pc = "returned" /\ controller.trigger.result)
        => controller.trigger.ran

\* C19: every executeSync run that starts ends, with isRunning reset to
\* false, provided each of its awaits resolves or rejects.
C19_RunEnds == jobStatus.isRunning ~> ~jobStatus.isRunning

\* A run is in progress after an earlier run has ended on an error of the
\* listing.
C19_Witness ==
    /\ jobStatus.isRunning
    /\ batch.pc = "syncing"
    /\ jobStatus.lastResult # << >>
    /\ ~jobStatus.lastResult[1].success
    /\ jobStatus.lastResult[1].studentsProcessed = 0

\* C20: an executeSync run that ends over a non-empty selection records
\* studentsProcessed + errors = the number of students selected, and success
\* exactly when errors = 0; syncAllStudents returns successfulSyncs +
\* failedSyncs = totalStudents = the number of result entries, successfulSyncs
\* being the number of entries whose result is a success.
C20_BatchAccounting ==
    /\ [][(batch.kind = "executeSync" /\ batch.pc # "list" /\ batch'.kind = "none")
            => LET r == jobStatus'.lastResult[1] IN
               /\ r.studentsProcessed + r.errors = Len(batch.list)
               /\ r.success <=> (r.errors = 0)]_vars
    /\ [](batch.pc = "returned" =>
            /\ batch.successfulSyncs + batch.failedSyncs = Len(batch.list)
            /\ Len(batch.results) = Len(batch.list)
            /\ batch.successfulSyncs =
                  Cardinality({k \in DOMAIN batch.results :
                                  batch.results[k].result.success}))

\* A run over two students has ended with one student processed and one
\* error.
C20_Witness ==
    /\ jobStatus.lastResult # << >>
    /\ jobStatus.lastResult[1].studentsProcessed = 1
    /\ jobStatus.lastResult[1].errors = 1
    /\ ~jobStatus.lastResult[1].success

\* C21 (as claimed): a sync that follows a successful sync of the same
\* student, with the same remote data and no write in between, and succeeds
\* too, reports submissionsAdded = 0, ratingChangesAdded = 0 and
\* contestsAdded = 0. The counts are the records the sync inserted, so the
\* three collections are then as the first sync left them.
C21_SecondSyncAddsNothing ==
    \A p \in Slots :
        (Succeeded(p) /\ sync[p].follows)
            => /\ sync[p].submissionsAdded = 0
               /\ sync[p].ratingChangesAdded = 0
               /\ sync[p].contestsAdded = 0

\* The step by which the sync in slot p returns failure because a remote
\* call failed: the handle validation, the user profile, or the list of
\* submissions.
ReturnsRemoteFailure(p) ==
    /\ sync[p].pc \in {"validate", "stats", "fetchSubmissions"}
    /\ sync'[p].pc = "done"
    /\ ~sync'[p].result.success

\* C22: when a sync returns failure because a remote call failed, the
\* student's currentRating, maxRating and lastDataUpdate are what they were
\* when the sync loaded the student, and the sync has inserted no Submission
\* and no RatingChange.
C22_RemoteFailureWritesNothing ==
    [][\A p \in Slots :
          ReturnsRemoteFailure(p) =>
              LET st == Student'[sync[p].id]
                  doc == sync[p].doc
              IN /\ st.currentRating = doc.currentRating
                 /\ st.maxRating = doc.maxRating
                 /\ st.lastDataUpdate = doc.lastDataUpdate
                 /\ sync[p].submissionsAdded = 0
                 /\ sync[p].ratingChangesAdded = 0
                 /\ Submission' = Submission
                 /\ RatingChange' = RatingChange]_vars

\* C22 witness: the list of submissions could not be fetched; the sync has
\* stored contests and returned failure; the student, synced before and
\* then given a rating by a PUT, holds what it held.
C22_Witness ==
    \E p \in Slots :
        /\ sync[p].pc = "done"
        /\ ~sync[p].result.success
        /\ sync[p].result.message = "Sync failed"
        /\ sync[p].remoteFailed
        /\ Contest # {}
        /\ Student[sync[p].id].currentRating = 2000
        /\ Student[sync[p].id].lastDataUpdate # Null

\* C23 (as claimed): a sync returns "Invalid handle '<handle>'" only when
\* the remote platform has reported that the handle does not exist; a
\* timeout, a network error or an outage during the validation is not
\* reported as an invalid handle.
C23_InvalidOnlyWhenNotFound ==
    \A p \in Slots :
        (sync[p].pc = "done" /\ sync[p].result.message = "Invalid handle")
            => sync[p].notFound

\* stopJob has returned true and no startJob or updateConfig(enabled = true)
\* has succeeded since: the last call of the service is a stopJob or an
\* updateConfig(enabled = false) that returned true, or a startJob or an
\* updateConfig(enabled = true) that called stopJob and then returned false.
Stopped ==
    /\ cron.call.op \in {"startJob", "stopJob", "updateConfig"}
    /\ cron.call.result # cron.call.enabled

\* C24: while the job is stopped, node-cron holds no task and no scheduled
\* run starts, and getStatus reports enabled = false with nextRun undefined;
\* the call that stops the job leaves the run in progress as it is; a manual
\* trigger that finds no run in progress starts one although the job is
\* stopped.
C24_StoppedJobRunsOnlyManually ==
    /\ [](Stopped => /\ cron.tasks = {}
                      /\ ~getStatus.enabled
                      /\ getStatus.nextRun = Null)
    /\ [][Stopped => ~(batch.trigger # "cron" /\ batch'.trigger = "cron")]_vars
    /\ [][(cron'.call # cron.call /\ Stopped')
            => /\ batch' = batch
               /\ sync' = sync
               /\ jobStatus'.isRunning = jobStatus.isRunning]_vars
    /\ [][(Stopped /\ ~jobStatus.isRunning
             /\ controller.trigger.pc = "idle" /\ controller'.trigger.pc # "idle")
            => /\ jobStatus'.isRunning
               /\ batch'.kind = "executeSync"
               /\ batch'.trigger = "manual"]_vars

\* C24 witness: POST /api/cron/stop has returned true after a task had been
\* scheduled; the scheduled run that was in progress has ended with its
\* student synced, and a manual trigger has started a run.
C24_Witness ==
    /\ cron.call = [op |-> "stopJob", enabled |-> FALSE, result |-> TRUE]
    /\ cron.created > 0
    /\ jobStatus.lastResult # << >>
    /\ jobStatus.lastResult[1].studentsProcessed = 1
    /\ Student[1].lastDataUpdate # Null
    /\ batch.kind = "executeSync"
    /\ batch.trigger = "manual"
    /\ controller.trigger.pc = "awaiting"

C26_ScheduledAtStartup ==
    (/\ cron.call = NoCall
     /\ cron.env.CRON_ENABLED # "false"
     /\ validate(Or(cron.env.CRON_SCHEDULE, DefaultSchedule)))
        => (jobStatus.enabled /\ cron.cronTask # Null /\ cron.tasks # {})

====
